---- MODULE Spec2Model ----
(***************************************************************************)
(* Model of jc.parsers.vmstat_s.parse, the streaming `vmstat` parser       *)
(* (src/jc/parsers/vmstat_s.py).  The generator is modelled one input      *)
(* line at a time: each action pulls the next element of `data`, runs the  *)
(* loop body on it and either continues, yields one value or raises.       *)
(*                                                                         *)
(* Python values are modelled as tuples: a str is the tuple of its         *)
(* characters, None/True/False are one-element tuples holding a word that  *)
(* is no character, an int is <<"int", n>>.  Dictionaries are functions    *)
(* from key names to values.                                               *)
(***************************************************************************)
EXTENDS Integers, Sequences, FiniteSets, TLC

\* Longest prefix of the input that is explored.
MaxLines == 4

\* Longest prefix of the input that two invocations are taken through together.
MaxTwin == 3

-----------------------------------------------------------------------------
\* Python values

None == <<"None">>
True == <<"True">>
False == <<"False">>
\* an element of the input that is not a str
NotStr == <<"object">>

bool(b) == IF b THEN True ELSE False

\* Python truth value of None, a bool or a str
Truthy(v) == v # None /\ v # False /\ v # <<>>

isinstance_str(v) == v \notin {None, True, False, NotStr} /\ (Len(v) = 0 \/ v[1] # "int")

-----------------------------------------------------------------------------
\* str methods

Min(S) == CHOOSE x \in S : \A y \in S : x <= y
Max(S) == CHOOSE x \in S : \A y \in S : x >= y

isspace(c) == c = " "

\* str.strip()
str_strip(s) ==
    LET ns == {i \in 1..Len(s) : ~isspace(s[i])}
    IN  IF ns = {} THEN <<>> ELSE SubSeq(s, Min(ns), Max(ns))

\* str.split(maxsplit=m) from position i on; m = -1 is no limit
RECURSIVE split_from(_, _, _)
split_from(s, i, m) ==
    LET ns == {j \in i..Len(s) : ~isspace(s[j])}
    IN  IF ns = {} THEN <<>>
        ELSE LET b  == Min(ns)
                 sp == {j \in b..Len(s) : isspace(s[j])}
                 e  == IF sp = {} THEN Len(s) + 1 ELSE Min(sp)
             IN  IF m = 0 THEN <<SubSeq(s, b, Len(s))>>
                 ELSE <<SubSeq(s, b, e - 1)>> \o split_from(s, e, m - 1)

str_split(s, m) == split_from(s, 1, m)

\* s.startswith(p)
str_startswith(s, p) == Len(p) <= Len(s) /\ SubSeq(s, 1, Len(p)) = p

\* p in s
str_contains(s, p) == \E i \in 0..(Len(s) - Len(p)) : SubSeq(s, i + 1, i + Len(p)) = p

\* ' '.join(toks)
RECURSIVE join(_)
join(toks) ==
    IF Len(toks) = 0 THEN <<>>
    ELSE IF Len(toks) = 1 THEN toks[1]
    ELSE toks[1] \o <<" ">> \o join(Tail(toks))

-----------------------------------------------------------------------------
\* String literals of the parser

S_procs     == <<"p","r","o","c","s">>
S_disk      == <<"d","i","s","k">>
S_timestamp == <<"-","t","i","m","e","s","t","a","m","p","-">>
S_swpd      == <<"s","w","p","d">>
S_free      == <<"f","r","e","e">>
S_buff      == <<"b","u","f","f">>
S_cache     == <<"c","a","c","h","e">>
S_inact     == <<"i","n","a","c","t">>
S_active    == <<"a","c","t","i","v","e">>
S_total     == <<"t","o","t","a","l">>
S_merged    == <<"m","e","r","g","e","d">>
S_sectors   == <<"s","e","c","t","o","r","s">>
S_UTC       == <<"U","T","C">>

-----------------------------------------------------------------------------
\* The input elements the iterable `data` may deliver

T_stamp == <<"0","9","-","1","6"," ","2","0",":","3","3">>
T_EST   == <<"E","S","T">>

\* marker lines
L_procs    == join(<<S_procs, <<"-","m","e","m","-">>>>)
L_procs_ts == join(<<S_procs, <<"-","m","e","m","-">>, S_timestamp>>)
L_disk     == join(<<S_disk \o <<"-">>, <<"-","r","e","a","d","s","-">>>>)
L_disk_ts  == join(<<S_disk \o <<"-">>, <<"-","r","e","a","d","s","-">>, S_timestamp>>)

\* header lines (vmstat right-aligns them, so they start with a blank)
H_a == <<" ">> \o join(<<<<"r">>, <<"b">>, S_swpd, S_free, S_buff, S_cache, <<"s","i">>>>)
H_b == <<" ">> \o join(<<<<"r">>, <<"b">>, S_swpd, S_free, S_inact, S_active, <<"s","i">>>>)
H_d == join(<<S_total, S_merged, S_sectors, <<"m","s">>>>)

L_hdr_a     == H_a
L_hdr_a_utc == join(<<H_a, S_UTC>>)
L_hdr_a_est == join(<<H_a, T_EST>>)
L_hdr_b     == H_b
L_hdr_b_utc == join(<<H_b, S_UTC>>)
L_hdr_d     == H_d
L_hdr_d_utc == join(<<H_d, S_UTC>>)

\* data lines
D_procs == <<" ">> \o join(<< <<"1">>, <<"0">>, <<"0">>, <<"9","4">>, <<"2","1">>, <<"7","4">>,
                   <<"0">>, <<"0">>, <<"1">>, <<"3">>, <<"2","9">>, <<"5","7">>,
                   <<"0">>, <<"0">>, <<"9","9">>, <<"0">>, <<"0">> >>)
D_disk  == join(<< <<"s","d","a">>, <<"1","8">>, <<"0">>, <<"4","4">>, <<"1","5">>, <<"2">>,
                   <<"0">>, <<"1","6">>, <<"3">>, <<"0">>, <<"2","6">> >>)

L_procs_data    == D_procs
L_procs_data_ts == join(<<D_procs, T_stamp>>)
L_disk_data     == D_disk
L_disk_data_ts  == join(<<D_disk, T_stamp>>)
L_disk_bad      == join(<< <<"s","d","a">>, <<"1","8">>, <<"x">>, <<"4","4">>, <<"1","5">>, <<"2">>,
                           <<"0">>, <<"1","6">>, <<"3">>, <<"0">>, <<"2","6">> >>)
L_short         == join(<< <<"1">>, <<"0">>, <<"0">>, <<"9","4">>, <<"2","1">> >>)
L_blank         == <<>>
L_spaces        == <<" ", " ">>

InputLines ==
    { L_procs, L_procs_ts, L_disk, L_disk_ts,
      L_hdr_a, L_hdr_a_utc, L_hdr_a_est, L_hdr_b, L_hdr_b_utc, L_hdr_d, L_hdr_d_utc,
      L_procs_data, L_procs_data_ts, L_disk_data, L_disk_data_ts, L_disk_bad, L_short,
      L_blank, L_spaces, NotStr }

-----------------------------------------------------------------------------
\* The str methods on the input elements, computed once per element

StrLines == {l \in InputLines : isinstance_str(l)}
Prefixes == {S_procs, S_disk}
Needles  == {S_timestamp, S_swpd, S_free, S_buff, S_cache, S_inact, S_active,
             S_total, S_merged, S_sectors}
MaxSplits == {-1, 11, 17}

Strip      == [s \in StrLines |-> str_strip(s)]
Split      == [s \in {Strip[l] : l \in StrLines} |-> [m \in MaxSplits |-> str_split(s, m)]]
StartsWith == [s \in StrLines |-> [p \in Prefixes |-> str_startswith(s, p)]]
Contains   == [s \in StrLines |-> [p \in Needles |-> str_contains(s, p)]]

strip(s) == Strip[s]
split(s, m) == Split[s][m]
startswith(s, p) == StartsWith[s][p]
contains(s, p) == Contains[s][p]

-----------------------------------------------------------------------------
\* Collaborators from jc.utils, known here by their contracts only

Digits == <<"0","1","2","3","4","5","6","7","8","9">>
isdigit(c) == \E i \in 1..10 : Digits[i] = c
DigitVal(c) == (CHOOSE i \in 1..10 : Digits[i] = c) - 1

RECURSIVE IntOf(_)
IntOf(s) == IF Len(s) = 0 THEN 0
            ELSE 10 * IntOf(SubSeq(s, 1, Len(s) - 1)) + DigitVal(s[Len(s)])

\* numeric coercion: null stays null, integer text becomes an integer,
\* anything else is a fault
convert_to_int_raises(v) == v # None /\ (Len(v) = 0 \/ \E i \in 1..Len(v) : ~isdigit(v[i]))
convert_to_int(v) == IF v = None THEN None ELSE <<"int", IntOf(v)>>

\* timestamp resolution of "MM-DD HH:MM <zone>": a naive epoch always, an
\* aware one only when the zone text is literally the UTC designator
ts_shape(t) == /\ Len(t) >= 11
               /\ \A i \in {1, 2, 4, 5, 7, 8, 10, 11} : isdigit(t[i])
               /\ t[3] = "-" /\ t[6] = " " /\ t[9] = ":"
               /\ (Len(t) > 11 => t[12] = " ")
ts_minutes(t) == ((IntOf(SubSeq(t, 1, 2)) * 31 + IntOf(SubSeq(t, 4, 5))) * 24
                  + IntOf(SubSeq(t, 7, 8))) * 60 + IntOf(SubSeq(t, 10, 11))
timestamp_raises(t) == ~ts_shape(t)
timestamp(t) ==
    [naive |-> <<"int", ts_minutes(t)>>,
     utc   |-> IF SubSeq(t, 13, Len(t)) = S_UTC THEN <<"int", ts_minutes(t)>> ELSE None]

\* f'{v}' of a str or None
format(v) == IF v = None THEN <<"N","o","n","e">> ELSE v

\* tagging of the values the stream yields
stream_success(output_line, ie) ==
    IF ie THEN output_line @@ ("_jc_meta" :> [success |-> TRUE]) ELSE output_line
stream_error_raises(ie) == ~ie
stream_error(e, l) == ("_jc_meta" :> [success |-> FALSE, error |-> e, line |-> l])

-----------------------------------------------------------------------------
\* parse(data, raw, quiet, ignore_exceptions)

VARIABLES
    data,               \* what was passed as data: "iterable", "str", "bytes" or "not_iterable"
    raw,                \* parameter raw
    ignore_exceptions,  \* parameter ignore_exceptions
    ie_given,           \* whether the caller passed ignore_exceptions at all
    pc,                 \* "call" (not started), "loop", "done" (exhausted), "raised"
    procs, buff_cache, disk, tstamp, tz,    \* the locals of parse
    line,               \* the loop variable: the element pulled last
    n,                  \* number of elements pulled from data so far
    yielded,            \* the value yielded for `line`, NoYield if none
    output,             \* what has been yielded so far: the element's number and its tag
    prev,               \* the locals as they were before `line` was processed
    nonblank,           \* number of elements pulled so far that are not blank lines
    consumed,           \* number of marker and header lines among them
    cur,                \* which invocation of parse is running: 1 or 2
    other               \* the frame of the other, suspended invocation, if there is one

vars == <<data, raw, ignore_exceptions, ie_given, pc, procs, buff_cache, disk, tstamp, tz,
          line, n, yielded, output, prev, nonblank, consumed, cur, other>>

params == <<data, raw, ignore_exceptions, ie_given>>

NoYield == [k \in {} |-> None]

\* no other invocation
Absent == [pc |-> "absent"]

Locals == [procs |-> procs, buff_cache |-> buff_cache, disk |-> disk, tstamp |-> tstamp, tz |-> tz]

\* defaults of the signature
Default_raw == FALSE
Mut_Default_ignore_exceptions == TRUE
Default_ignore_exceptions == FALSE

Init ==
    /\ data \in {"iterable", "str", "bytes", "not_iterable"}
    /\ raw \in {Default_raw, TRUE}
    /\ ie_given \in BOOLEAN
    /\ ignore_exceptions \in (IF ie_given THEN BOOLEAN ELSE {Default_ignore_exceptions})
    /\ pc = "call"
    /\ procs = None /\ buff_cache = None /\ disk = None /\ tstamp = None /\ tz = None
    /\ line = None
    /\ n = 0
    /\ yielded = NoYield
    /\ output = <<>>
    /\ prev = Locals
    /\ nonblank = 0
    /\ consumed = 0
    /\ cur = 1
    /\ other = Absent

\* the check of data and the initialisation of the locals
\* only the missing __iter__ is refused
Mut_input_TypeError == data = "not_iterable"

input_TypeError == data = "not_iterable" \/ data \in {"str", "bytes"}

Call ==
    /\ pc = "call"
    /\ pc' = IF input_TypeError THEN "raised" ELSE "loop"
    /\ procs' = None /\ buff_cache' = None /\ disk' = None /\ tstamp' = None /\ tz' = None
    /\ prev' = [procs |-> None, buff_cache |-> None, disk |-> None, tstamp |-> None, tz |-> None]
    /\ UNCHANGED <<params, cur, other, line, n, yielded, output, nonblank, consumed>>

\* What an element looks like, whatever the locals are: the tests of the loop
\* body without their conditions on procs and disk
line_shape(l) ==
    IF ~isinstance_str(l) THEN "not_str"
    ELSE IF strip(l) = <<>> THEN "blank"
    ELSE IF startswith(l, S_procs) \/ startswith(l, S_disk) THEN "marker"
    ELSE IF contains(l, S_swpd) /\ contains(l, S_free) /\ contains(l, S_buff)
            /\ contains(l, S_cache) THEN "layout_a"
    ELSE IF contains(l, S_swpd) /\ contains(l, S_free) /\ contains(l, S_inact)
            /\ contains(l, S_active) THEN "layout_b"
    ELSE IF contains(l, S_total) /\ contains(l, S_merged) /\ contains(l, S_sectors)
         THEN "disk_header"
    ELSE "data"

Shape == [l \in InputLines |-> line_shape(l)]
shape(l) == Shape[l]

HeaderShapes == {"marker", "layout_a", "layout_b", "disk_header"}

\* `for line in data`: the next element is l
Iter(l) ==
    /\ pc = "loop"
    /\ n < MaxLines
    /\ line' = l
    /\ n' = n + 1
    /\ prev' = Locals
    /\ nonblank' = nonblank + (IF shape(l) = "blank" THEN 0 ELSE 1)
    /\ consumed' = consumed + (IF shape(l) \in HeaderShapes THEN 1 ELSE 0)
    /\ UNCHANGED <<params, cur, other>>

\* the iterable is exhausted: the generator returns
StopIteration ==
    /\ pc = "loop"
    /\ pc' = "done"
    /\ yielded' = NoYield
    /\ UNCHANGED <<params, cur, other, procs, buff_cache, disk, tstamp, tz, line, n, output,
                   prev, nonblank, consumed>>

\* `continue`
Continue ==
    /\ yielded' = NoYield
    /\ UNCHANGED <<pc, output>>

\* `yield v`
Yield(v, ok) ==
    /\ yielded' = v
    /\ output' = Append(output, [idx |-> n + 1, success |-> ok])
    /\ UNCHANGED pc

\* `except Exception as e: yield stream_error(e, ignore_exceptions, line)`
Except(e, l) ==
    IF stream_error_raises(ignore_exceptions)
    THEN /\ pc' = "raised"
         /\ yielded' = NoYield
         /\ UNCHANGED output
    ELSE Yield(stream_error(e, l), FALSE)

-----------------------------------------------------------------------------
\* The conditions of the loop body, in the order the body tests them

not_str(l) == ~isinstance_str(l)

\* the test without strip()
Mut_blank(l) == l = <<>>
blank(l) == strip(l) = <<>>

detect_procs(l) == ~Truthy(procs) /\ ~Truthy(disk) /\ startswith(l, S_procs)

\* the disk marker accepted although a family is set
Mut_detect_disk(l) == startswith(l, S_disk)
detect_disk(l) == ~Truthy(procs) /\ ~Truthy(disk) /\ startswith(l, S_disk)

\* only the marker of the family that is set is skipped
Mut_skip_header_row(l) ==
    (Truthy(procs) /\ startswith(l, S_procs)) \/ (Truthy(disk) /\ startswith(l, S_disk))

skip_header_row(l) ==
    (Truthy(procs) \/ Truthy(disk)) /\ (startswith(l, S_procs) \/ startswith(l, S_disk))

\* the header honoured for the procs family only
Mut_header_buff_cache(l) ==
    /\ Truthy(procs)
    /\ contains(l, S_swpd) /\ contains(l, S_free) /\ contains(l, S_buff) /\ contains(l, S_cache)

header_buff_cache(l) ==
    contains(l, S_swpd) /\ contains(l, S_free) /\ contains(l, S_buff) /\ contains(l, S_cache)

\* the header honoured for the procs family only
Mut_header_inact_active(l) ==
    /\ Truthy(procs)
    /\ contains(l, S_swpd) /\ contains(l, S_free) /\ contains(l, S_inact) /\ contains(l, S_active)

header_inact_active(l) ==
    contains(l, S_swpd) /\ contains(l, S_free) /\ contains(l, S_inact) /\ contains(l, S_active)

header_disk(l) == contains(l, S_total) /\ contains(l, S_merged) /\ contains(l, S_sectors)

\* the last token taken whether or not there is a timestamp column
Mut_header_tz(l) == LET line_list == split(strip(l), -1) IN line_list[Len(line_list)]

\* tz = line.strip().split()[-1] if tstamp else None
header_tz(l) ==
    IF Truthy(tstamp) THEN LET line_list == split(strip(l), -1) IN line_list[Len(line_list)]
    ELSE None

-----------------------------------------------------------------------------
\* Line parsing

procs_IndexError(line_list) ==
    Len(line_list) < 17 \/ (Truthy(tstamp) /\ Len(line_list) < 18)

\* inactive_mem and active_mem filled whatever the layout is
Mut_procs_output_line(line_list) ==
    [runnable_procs                 |-> line_list[1],
     uninterruptible_sleeping_procs |-> line_list[2],
     virtual_mem_used               |-> line_list[3],
     free_mem                       |-> line_list[4],
     buffer_mem                     |-> IF Truthy(buff_cache) THEN line_list[5] ELSE None,
     cache_mem                      |-> IF Truthy(buff_cache) THEN line_list[6] ELSE None,
     inactive_mem                   |-> line_list[5],
     active_mem                     |-> line_list[6],
     swap_in                        |-> line_list[7],
     swap_out                       |-> line_list[8],
     blocks_in                      |-> line_list[9],
     blocks_out                     |-> line_list[10],
     interrupts                     |-> line_list[11],
     context_switches               |-> line_list[12],
     user_time                      |-> line_list[13],
     system_time                    |-> line_list[14],
     idle_time                      |-> line_list[15],
     io_wait_time                   |-> line_list[16],
     stolen_time                    |-> line_list[17],
     timestamp                      |-> IF Truthy(tstamp) THEN line_list[18] ELSE None,
     timezone                       |-> IF Truthy(tz) THEN tz ELSE None]

\* buffer/cache assumed until an inact/active header says otherwise
Mut_procs_output_line_default(line_list) ==
    [runnable_procs                 |-> line_list[1],
     uninterruptible_sleeping_procs |-> line_list[2],
     virtual_mem_used               |-> line_list[3],
     free_mem                       |-> line_list[4],
     buffer_mem                     |-> IF buff_cache # False THEN line_list[5] ELSE None,
     cache_mem                      |-> IF buff_cache # False THEN line_list[6] ELSE None,
     inactive_mem                   |-> IF buff_cache = False THEN line_list[5] ELSE None,
     active_mem                     |-> IF buff_cache = False THEN line_list[6] ELSE None,
     swap_in                        |-> line_list[7],
     swap_out                       |-> line_list[8],
     blocks_in                      |-> line_list[9],
     blocks_out                     |-> line_list[10],
     interrupts                     |-> line_list[11],
     context_switches               |-> line_list[12],
     user_time                      |-> line_list[13],
     system_time                    |-> line_list[14],
     idle_time                      |-> line_list[15],
     io_wait_time                   |-> line_list[16],
     stolen_time                    |-> line_list[17],
     timestamp                      |-> IF Truthy(tstamp) THEN line_list[18] ELSE None,
     timezone                       |-> IF Truthy(tz) THEN tz ELSE None]

procs_output_line(line_list) ==
    [runnable_procs                 |-> line_list[1],
     uninterruptible_sleeping_procs |-> line_list[2],
     virtual_mem_used               |-> line_list[3],
     free_mem                       |-> line_list[4],
     buffer_mem                     |-> IF Truthy(buff_cache) THEN line_list[5] ELSE None,
     cache_mem                      |-> IF Truthy(buff_cache) THEN line_list[6] ELSE None,
     inactive_mem                   |-> IF ~Truthy(buff_cache) THEN line_list[5] ELSE None,
     active_mem                     |-> IF ~Truthy(buff_cache) THEN line_list[6] ELSE None,
     swap_in                        |-> line_list[7],
     swap_out                       |-> line_list[8],
     blocks_in                      |-> line_list[9],
     blocks_out                     |-> line_list[10],
     interrupts                     |-> line_list[11],
     context_switches               |-> line_list[12],
     user_time                      |-> line_list[13],
     system_time                    |-> line_list[14],
     idle_time                      |-> line_list[15],
     io_wait_time                   |-> line_list[16],
     stolen_time                    |-> line_list[17],
     timestamp                      |-> IF Truthy(tstamp) THEN line_list[18] ELSE None,
     timezone                       |-> IF Truthy(tz) THEN tz ELSE None]

disk_IndexError(line_list) ==
    Len(line_list) < 11 \/ (Truthy(tstamp) /\ Len(line_list) < 12)

disk_output_line(line_list) ==
    [disk            |-> line_list[1],
     total_reads     |-> line_list[2],
     merged_reads    |-> line_list[3],
     sectors_read    |-> line_list[4],
     reading_ms      |-> line_list[5],
     total_writes    |-> line_list[6],
     merged_writes   |-> line_list[7],
     sectors_written |-> line_list[8],
     writing_ms      |-> line_list[9],
     current_io      |-> line_list[10],
     io_seconds      |-> line_list[11],
     timestamp       |-> IF Truthy(tstamp) THEN line_list[12] ELSE None,
     timezone        |-> IF Truthy(tz) THEN tz ELSE None]

\* `if procs:` written as `if not disk:`, so that output_line is never empty
Mut_extract_raises(l) ==
    IF ~Truthy(disk) /\ procs_IndexError(split(strip(l), 17)) THEN "IndexError"
    ELSE IF Truthy(disk) /\ disk_IndexError(split(strip(l), 11)) THEN "IndexError"
    ELSE ""

\* the exception the extraction of l raises, "" if none
extract_raises(l) ==
    IF Truthy(procs) /\ procs_IndexError(split(strip(l), 17)) THEN "IndexError"
    ELSE IF Truthy(disk) /\ disk_IndexError(split(strip(l), 11)) THEN "IndexError"
    ELSE IF ~Truthy(procs) /\ ~Truthy(disk) THEN "ParseError"
    ELSE ""

\* output_line once both `if procs:` and `if disk:` have run
extract(l) ==
    IF Truthy(disk) THEN disk_output_line(split(strip(l), 11))
    ELSE procs_output_line(split(strip(l), 17))

\* merged_reads left out of the list
Mut_int_list ==
    {"runnable_procs", "uninterruptible_sleeping_procs", "virtual_mem_used", "free_mem",
     "buffer_mem", "cache_mem", "inactive_mem", "active_mem", "swap_in", "swap_out",
     "blocks_in", "blocks_out", "interrupts", "context_switches", "user_time",
     "system_time", "idle_time", "io_wait_time", "stolen_time", "total_reads",
     "sectors_read", "reading_ms", "total_writes", "merged_writes",
     "sectors_written", "writing_ms", "current_io", "io_seconds"}

int_list ==
    {"runnable_procs", "uninterruptible_sleeping_procs", "virtual_mem_used", "free_mem",
     "buffer_mem", "cache_mem", "inactive_mem", "active_mem", "swap_in", "swap_out",
     "blocks_in", "blocks_out", "interrupts", "context_switches", "user_time",
     "system_time", "idle_time", "io_wait_time", "stolen_time", "total_reads",
     "merged_reads", "sectors_read", "reading_ms", "total_writes", "merged_writes",
     "sectors_written", "writing_ms", "current_io", "io_seconds"}

process_ts(proc_data) ==
    format(proc_data["timestamp"]) \o <<" ">> \o format(proc_data["timezone"])

\* the exception _process(proc_data) raises, "" if none
process_raises(proc_data) ==
    IF \E key \in DOMAIN proc_data \cap int_list : convert_to_int_raises(proc_data[key])
    THEN "ConversionFault"
    ELSE IF Truthy(proc_data["timestamp"]) /\ timestamp_raises(process_ts(proc_data))
    THEN "TimestampFault"
    ELSE ""

\* the keys of the two dict literals in the order they are written, which is
\* the order `for key in proc_data` visits them
key_order ==
    <<"runnable_procs", "uninterruptible_sleeping_procs", "virtual_mem_used", "free_mem",
      "buffer_mem", "cache_mem", "inactive_mem", "active_mem", "swap_in", "swap_out",
      "blocks_in", "blocks_out", "interrupts", "context_switches", "user_time",
      "system_time", "idle_time", "io_wait_time", "stolen_time",
      "disk", "total_reads", "merged_reads", "sectors_read", "reading_ms", "total_writes",
      "merged_writes", "sectors_written", "writing_ms", "current_io", "io_seconds",
      "timestamp", "timezone">>

\* the first field whose conversion fails
first_bad_key(proc_data) ==
    key_order[Min({i \in 1..Len(key_order) :
                      /\ key_order[i] \in DOMAIN proc_data \cap int_list
                      /\ convert_to_int_raises(proc_data[key_order[i]])})]

\* the exception _process(proc_data) raises: its kind and, for a conversion,
\* the field it names
process_exception(proc_data) ==
    IF process_raises(proc_data) = "ConversionFault"
    THEN <<"ConversionFault", first_bad_key(proc_data)>>
    ELSE <<process_raises(proc_data)>>

\* the aware epoch copied from the naive one, whatever the zone is
Mut_process(proc_data) ==
    LET ints == [key \in DOMAIN proc_data |->
                    IF key \in int_list THEN convert_to_int(proc_data[key])
                    ELSE proc_data[key]]
    IN  IF Truthy(proc_data["timestamp"])
        THEN LET ts == timestamp(process_ts(proc_data))
             IN  ints @@ ("epoch" :> ts.naive) @@ ("epoch_utc" :> ts.naive)
        ELSE ints

process(proc_data) ==
    LET ints == [key \in DOMAIN proc_data |->
                    IF key \in int_list THEN convert_to_int(proc_data[key])
                    ELSE proc_data[key]]
    IN  IF Truthy(proc_data["timestamp"])
        THEN LET ts == timestamp(process_ts(proc_data))
             IN  ints @@ ("epoch" :> ts.naive) @@ ("epoch_utc" :> ts.utc)
        ELSE ints

-----------------------------------------------------------------------------
\* The loop body: one action per way through it

\* the type test placed before the try block: its TypeError leaves the generator
Mut_NotStrLine(l) ==
    /\ Iter(l)
    /\ not_str(l)
    /\ pc' = "raised"
    /\ yielded' = NoYield
    /\ UNCHANGED <<output, procs, buff_cache, disk, tstamp, tz>>

\* if not isinstance(line, str): raise TypeError
NotStrLine(l) ==
    /\ Iter(l)
    /\ not_str(l)
    /\ Except(<<"TypeError">>, l)
    /\ UNCHANGED <<procs, buff_cache, disk, tstamp, tz>>

\* skip blank lines
BlankLine(l) ==
    /\ Iter(l)
    /\ ~not_str(l) /\ blank(l)
    /\ Continue
    /\ UNCHANGED <<procs, buff_cache, disk, tstamp, tz>>

\* detect output type: procs
DetectProcs(l) ==
    /\ Iter(l)
    /\ ~not_str(l) /\ ~blank(l)
    /\ detect_procs(l)
    /\ procs' = True
    /\ tstamp' = bool(contains(l, S_timestamp))
    /\ Continue
    /\ UNCHANGED <<buff_cache, disk, tz>>

\* detect output type: disk
DetectDisk(l) ==
    /\ Iter(l)
    /\ ~not_str(l) /\ ~blank(l) /\ ~detect_procs(l)
    /\ detect_disk(l)
    /\ disk' = True
    /\ tstamp' = bool(contains(l, S_timestamp))
    /\ Continue
    /\ UNCHANGED <<procs, buff_cache, tz>>

\* a repeated marker line starting the layout detection over
Mut_SkipHeaderRow(l) ==
    /\ Iter(l)
    /\ ~not_str(l) /\ ~blank(l) /\ ~detect_procs(l) /\ ~detect_disk(l)
    /\ skip_header_row(l)
    /\ buff_cache' = None
    /\ Continue
    /\ UNCHANGED <<procs, disk, tstamp, tz>>

\* skip header rows
SkipHeaderRow(l) ==
    /\ Iter(l)
    /\ ~not_str(l) /\ ~blank(l) /\ ~detect_procs(l) /\ ~detect_disk(l)
    /\ skip_header_row(l)
    /\ Continue
    /\ UNCHANGED <<procs, buff_cache, disk, tstamp, tz>>

no_marker(l) ==
    ~not_str(l) /\ ~blank(l) /\ ~detect_procs(l) /\ ~detect_disk(l) /\ ~skip_header_row(l)

\* the swpd/free/buff/cache header
HeaderBuffCache(l) ==
    /\ Iter(l)
    /\ no_marker(l)
    /\ header_buff_cache(l)
    /\ buff_cache' = True
    /\ tz' = header_tz(l)
    /\ Continue
    /\ UNCHANGED <<procs, disk, tstamp>>

\* the swpd/free/inact/active header
HeaderInactActive(l) ==
    /\ Iter(l)
    /\ no_marker(l) /\ ~header_buff_cache(l)
    /\ header_inact_active(l)
    /\ buff_cache' = False
    /\ tz' = header_tz(l)
    /\ Continue
    /\ UNCHANGED <<procs, disk, tstamp>>

\* the disk header taking its last token without looking at tstamp
Mut_HeaderDisk(l) ==
    /\ Iter(l)
    /\ no_marker(l) /\ ~header_buff_cache(l) /\ ~header_inact_active(l)
    /\ header_disk(l)
    /\ tz' = LET line_list == split(strip(l), -1) IN line_list[Len(line_list)]
    /\ Continue
    /\ UNCHANGED <<procs, buff_cache, disk, tstamp>>

\* the total/merged/sectors header
HeaderDisk(l) ==
    /\ Iter(l)
    /\ no_marker(l) /\ ~header_buff_cache(l) /\ ~header_inact_active(l)
    /\ header_disk(l)
    /\ tz' = header_tz(l)
    /\ Continue
    /\ UNCHANGED <<procs, buff_cache, disk, tstamp>>

no_header(l) ==
    no_marker(l) /\ ~header_buff_cache(l) /\ ~header_inact_active(l) /\ ~header_disk(l)

\* an IndexError of the extraction swallowed: the record goes out without fields
Mut_ParseLine(l) ==
    /\ Iter(l)
    /\ no_header(l)
    /\ LET e == extract_raises(l)
       IN  IF e = "IndexError"
           THEN Yield(stream_success([timestamp |-> None, timezone |-> None],
                                     ignore_exceptions), TRUE)
           ELSE IF e # "" THEN Except(<<e>>, l)
           ELSE IF raw THEN Yield(stream_success(extract(l), ignore_exceptions), TRUE)
           ELSE IF process_raises(extract(l)) # ""
           THEN Except(process_exception(extract(l)), l)
           ELSE Yield(stream_success(process(extract(l)), ignore_exceptions), TRUE)
    /\ UNCHANGED <<procs, buff_cache, disk, tstamp, tz>>

\* a fault while extracting forgets the family and the layout seen so far
Mut_ParseLine_resets(l) ==
    /\ Iter(l)
    /\ no_header(l)
    /\ LET e == extract_raises(l)
           output_line == extract(l)
           pe == process_raises(output_line)
       IN  /\ IF e # "" THEN Except(<<e>>, l)
              ELSE IF raw THEN Yield(stream_success(output_line, ignore_exceptions), TRUE)
              ELSE IF pe # "" THEN Except(process_exception(output_line), l)
              ELSE Yield(stream_success(process(output_line), ignore_exceptions), TRUE)
           /\ procs' = IF e # "" THEN None ELSE procs
           /\ disk' = IF e # "" THEN None ELSE disk
           /\ buff_cache' = IF e # "" THEN None ELSE buff_cache
    /\ UNCHANGED <<tstamp, tz>>

\* _process applied before raw is looked at, so that raw output is validated too
Mut_ParseLine_validates(l) ==
    /\ Iter(l)
    /\ no_header(l)
    /\ LET e == extract_raises(l)
           output_line == extract(l)
           pe == process_raises(output_line)
       IN  IF e # "" THEN Except(<<e>>, l)
           ELSE IF pe # "" THEN Except(process_exception(output_line), l)
           ELSE IF raw THEN Yield(stream_success(output_line, ignore_exceptions), TRUE)
           ELSE Yield(stream_success(process(output_line), ignore_exceptions), TRUE)
    /\ UNCHANGED <<procs, buff_cache, disk, tstamp, tz>>

\* line parsing
ParseLine(l) ==
    /\ Iter(l)
    /\ no_header(l)
    /\ LET e == extract_raises(l)
           output_line == extract(l)
           pe == process_raises(output_line)
       IN  IF e # "" THEN Except(<<e>>, l)
           ELSE IF raw THEN Yield(stream_success(output_line, ignore_exceptions), TRUE)
           ELSE IF pe # "" THEN Except(process_exception(output_line), l)
           ELSE Yield(stream_success(process(output_line), ignore_exceptions), TRUE)
    /\ UNCHANGED <<procs, buff_cache, disk, tstamp, tz>>

Next ==
    \/ Call
    \/ \E l \in InputLines : NotStrLine(l)
    \/ \E l \in InputLines : BlankLine(l)
    \/ \E l \in InputLines : DetectProcs(l)
    \/ \E l \in InputLines : DetectDisk(l)
    \/ \E l \in InputLines : SkipHeaderRow(l)
    \/ \E l \in InputLines : HeaderBuffCache(l)
    \/ \E l \in InputLines : HeaderInactActive(l)
    \/ \E l \in InputLines : HeaderDisk(l)
    \/ \E l \in InputLines : ParseLine(l)
    \/ StopIteration

Spec == Init /\ [][Next]_vars

-----------------------------------------------------------------------------
\* Two invocations of parse.  The parameters and the locals of parse live in
\* the frame of the generator the call creates; the caller resumes one
\* generator at a time.  `other` is the frame of the generator that is not
\* running.

Frame ==
    [data |-> data, raw |-> raw, ignore_exceptions |-> ignore_exceptions,
     ie_given |-> ie_given, pc |-> pc, procs |-> procs, buff_cache |-> buff_cache,
     disk |-> disk, tstamp |-> tstamp, tz |-> tz, line |-> line, n |-> n,
     yielded |-> yielded, output |-> output, prev |-> prev, nonblank |-> nonblank,
     consumed |-> consumed]

\* the frame of parse(data, raw=r, ignore_exceptions=ie) before its first step
NewFrame(r, ie) ==
    [data |-> "iterable", raw |-> r, ignore_exceptions |-> ie, ie_given |-> TRUE,
     pc |-> "call", procs |-> None, buff_cache |-> None, disk |-> None, tstamp |-> None,
     tz |-> None, line |-> None, n |-> 0, yielded |-> NoYield, output |-> <<>>,
     prev |-> [procs |-> None, buff_cache |-> None, disk |-> None, tstamp |-> None,
               tz |-> None],
     nonblank |-> 0, consumed |-> 0]

\* tz kept in one place for both generators instead of in each frame
Mut_Switch ==
    /\ other # Absent
    /\ cur' = 3 - cur
    /\ other' = Frame
    /\ data' = other.data /\ raw' = other.raw
    /\ ignore_exceptions' = other.ignore_exceptions /\ ie_given' = other.ie_given
    /\ pc' = other.pc
    /\ procs' = other.procs /\ buff_cache' = other.buff_cache /\ disk' = other.disk
    /\ tstamp' = other.tstamp /\ tz' = tz
    /\ line' = other.line /\ n' = other.n
    /\ yielded' = other.yielded /\ output' = other.output /\ prev' = other.prev
    /\ nonblank' = other.nonblank /\ consumed' = other.consumed

\* the caller turns to the other generator
Switch ==
    /\ other # Absent
    /\ cur' = 3 - cur
    /\ other' = Frame
    /\ data' = other.data /\ raw' = other.raw
    /\ ignore_exceptions' = other.ignore_exceptions /\ ie_given' = other.ie_given
    /\ pc' = other.pc
    /\ procs' = other.procs /\ buff_cache' = other.buff_cache /\ disk' = other.disk
    /\ tstamp' = other.tstamp /\ tz' = other.tz
    /\ line' = other.line /\ n' = other.n
    /\ yielded' = other.yielded /\ output' = other.output /\ prev' = other.prev
    /\ nonblank' = other.nonblank /\ consumed' = other.consumed

\* how many steps a generator has taken: the call, the elements, the end
steps(f) == (IF f.pc = "call" THEN 0 ELSE 1) + f.n + (IF f.pc = "done" THEN 1 ELSE 0)

\* Two invocations on the same input that differ in raw only.  Invocation 1
\* takes a step, then invocation 2 takes the same step on the same element.
InitTwin ==
    /\ data = "iterable"
    /\ raw \in BOOLEAN
    /\ ie_given = TRUE
    /\ ignore_exceptions \in BOOLEAN
    /\ pc = "call"
    /\ procs = None /\ buff_cache = None /\ disk = None /\ tstamp = None /\ tz = None
    /\ line = None
    /\ n = 0
    /\ yielded = NoYield
    /\ output = <<>>
    /\ prev = Locals
    /\ nonblank = 0
    /\ consumed = 0
    /\ cur = 1
    /\ other = NewFrame(~raw, ignore_exceptions)

\* the loop body on element l
Body(l) ==
    \/ NotStrLine(l) \/ BlankLine(l) \/ DetectProcs(l) \/ DetectDisk(l) \/ SkipHeaderRow(l)
    \/ HeaderBuffCache(l) \/ HeaderInactActive(l) \/ HeaderDisk(l) \/ ParseLine(l)

Lead ==
    /\ cur = 1 /\ steps(Frame) = steps(other)
    /\ \/ Call
       \/ StopIteration
       \/ n < MaxTwin /\ \E l \in InputLines : Body(l)

Follow ==
    /\ cur = 2 /\ steps(Frame) < steps(other)
    /\ IF pc = "call" THEN Call
       ELSE IF other.pc = "done" THEN StopIteration
       ELSE Body(other.line)

Turn ==
    /\ \/ cur = 1 /\ steps(Frame) > steps(other)
       \/ cur = 2 /\ steps(Frame) = steps(other)
    /\ Switch

NextTwin == Lead \/ Follow \/ Turn

SpecTwin == InitTwin /\ [][NextTwin]_vars

-----------------------------------------------------------------------------
\* Vocabulary of the properties

family_of(st) ==
    IF Truthy(st.procs) THEN "PROCESS" ELSE IF Truthy(st.disk) THEN "DISK" ELSE "UNSET"

IsError(v) == "_jc_meta" \in DOMAIN v /\ ~v["_jc_meta"].success
IsSuccess(v) == DOMAIN v # {} /\ ~IsError(v)

\* `line` has just gone through the loop body, which started from `prev`
Processed == n > 0 /\ pc \in {"loop", "raised"}

\* the positions in the output of the values yielded for element i
OutputsFor(i) == {k \in 1..Len(output) : output[k].idx = i}

\* whitespace-delimited tokens of a line, and how many a family needs
ntokens(l) == Len(split(strip(l), -1))
required(st) ==
    IF family_of(st) = "PROCESS" THEN (IF Truthy(st.tstamp) THEN 18 ELSE 17)
    ELSE (IF Truthy(st.tstamp) THEN 12 ELSE 11)

\* the per-line faults: a non-text element, a data line before any marker,
\* a data line with too few tokens
LineFault(l, st) ==
    \/ shape(l) = "not_str"
    \/ shape(l) = "data" /\ (family_of(st) = "UNSET" \/ ntokens(l) < required(st))

-----------------------------------------------------------------------------
\* Two invocations, each over its own input, pulled in any order by the caller

\* the elements pulled from both inputs together
MaxPair == 3

\* one element for every branch of the loop body
PairLines ==
    {NotStr, L_blank, L_procs_ts, L_disk_ts, H_a, L_hdr_a_utc, L_hdr_b_utc, L_hdr_d_utc,
     L_procs_data_ts, L_disk_data_ts}

InitPair ==
    /\ data = "iterable"
    /\ raw = Default_raw
    /\ ie_given = TRUE
    /\ ignore_exceptions \in BOOLEAN
    /\ pc = "call"
    /\ procs = None /\ buff_cache = None /\ disk = None /\ tstamp = None /\ tz = None
    /\ line = None
    /\ n = 0
    /\ yielded = NoYield
    /\ output = <<>>
    /\ prev = Locals
    /\ nonblank = 0
    /\ consumed = 0
    /\ cur = 1
    /\ other = NewFrame(TRUE, TRUE)

\* next() on the running generator
Pull ==
    \/ Call
    \/ StopIteration
    \/ n + other.n < MaxPair /\ \E l \in PairLines : Body(l)

NextPair == Pull \/ Switch

SpecPair == InitPair /\ [][NextPair]_vars

-----------------------------------------------------------------------------
\* C1: with ignore_exceptions=True a fault on an element yields exactly one
\* Error value for that element, carrying it, the generator stays in its loop
\* ready for the next element, and it never ends by raising: it ends only
\* when the input is exhausted.
C1_FaultIsolated ==
    (ignore_exceptions /\ data = "iterable") =>
        /\ pc # "raised"
        /\ (Processed /\ LineFault(line, prev)) =>
              /\ pc = "loop"
              /\ IsError(yielded)
              /\ yielded["_jc_meta"].line = line
              /\ Cardinality(OutputsFor(n)) = 1
              /\ output[Len(output)] = [idx |-> n, success |-> FALSE]

\* a Success for an element that follows a faulty one
C1_Witness ==
    /\ ignore_exceptions /\ Processed
    /\ IsSuccess(yielded)
    /\ \E k \in 1..Len(output) : output[k].idx < n /\ ~output[k].success

\* C2 as stated: when ignore_exceptions is not passed, a faulty element
\* yields an Error value and the generator goes on.
C2_DefaultContinues ==
    (~ie_given /\ Processed /\ LineFault(line, prev)) =>
        pc = "loop" /\ IsError(yielded)

\* C2 amended: when ignore_exceptions is not passed, a faulty element ends
\* the generator by raising and no value is yielded for it.
C2_DefaultRaises ==
    (~ie_given /\ Processed /\ LineFault(line, prev)) =>
        pc = "raised" /\ yielded = NoYield /\ OutputsFor(n) = {}

\* the default run ended by a fault after it had yielded a value
C2_Witness ==
    ~ie_given /\ pc = "raised" /\ n > 1 /\ Len(output) > 0 /\ LineFault(line, prev)

\* C3: with ignore_exceptions=True the number of values yielded is the number
\* of non-blank elements minus the marker and header lines among them, each
\* element yields at most one value, and the values come in input order.
C3_OneOutputPerLine ==
    (ignore_exceptions /\ data = "iterable") =>
        /\ Len(output) = nonblank - consumed
        /\ \A k \in 1..Len(output) :
              /\ output[k].idx \in 1..n
              /\ \A j \in 1..Len(output) : j < k => output[j].idx < output[k].idx

\* blank, marker, header and data lines all seen, and two values yielded
C3_Witness ==
    /\ ignore_exceptions /\ pc = "done"
    /\ Len(output) = 2 /\ consumed = 1 /\ nonblank = 3 /\ n = 4

\* C4: procs, disk and tstamp are written once: after a marker line has set
\* the family no element changes any of them.
C4_FamilyWriteOnce ==
    (Processed /\ family_of(prev) # "UNSET") =>
        procs = prev.procs /\ disk = prev.disk /\ tstamp = prev.tstamp

\* a marker line of the other family, with the other timestamp setting, was
\* processed after the family was set
C4_Witness ==
    /\ Processed /\ family_of(prev) = "PROCESS" /\ prev.tstamp = False
    /\ line = L_disk_ts

LayoutShapes == {"layout_a", "layout_b"}
ColumnShapes == {"layout_a", "layout_b", "disk_header"}

last_token(l) == LET line_list == str_split(l, -1) IN line_list[Len(line_list)]

\* C5 as stated: once a layout header has set buff_cache no element changes it.
C5_VariantWriteOnce ==
    (Processed /\ prev.buff_cache # None) => buff_cache = prev.buff_cache

\* C5 amended: buff_cache, once set, is never unset, and it changes only on a
\* layout header line, which sets it to that header's layout (so a later
\* header of the other layout does change it).
C5_VariantFollowsHeader ==
    Processed =>
        /\ prev.buff_cache # None => buff_cache # None
        /\ buff_cache # prev.buff_cache =>
              \/ shape(line) = "layout_a" /\ buff_cache = True
              \/ shape(line) = "layout_b" /\ buff_cache = False

\* an inact/active header changed the layout a buff/cache header had set
C5_Witness ==
    Processed /\ prev.buff_cache = True /\ shape(line) = "layout_b" /\ buff_cache = False

\* C6 as stated: once a header line has set tz no later header line assigns
\* it again or changes it.
C6_TzAssignedOnce ==
    (Processed /\ prev.tz # None) => tz = prev.tz

\* C6 amended: every header line assigns tz: its last token when tstamp is
\* true, None otherwise (so a later header with another last token changes
\* it); no other element changes tz, and once set it is never None again.
C6_TzFollowsHeader ==
    Processed =>
        /\ prev.tz # None => tz # None
        /\ IF shape(line) \in ColumnShapes
           THEN tz = (IF Truthy(tstamp) THEN last_token(line) ELSE None)
           ELSE tz = prev.tz

\* a later header with another last token replaced the zone
C6_Witness ==
    Processed /\ prev.tz = S_UTC /\ shape(line) \in ColumnShapes /\ tz = T_EST

\* C7: once the family is set, a line that starts with 'procs' or 'disk'
\* yields nothing and leaves every local as it was.
C7_MarkerSkipped ==
    (Processed /\ family_of(prev) # "UNSET" /\ shape(line) = "marker") =>
        /\ pc = "loop"
        /\ yielded = NoYield
        /\ OutputsFor(n) = {}
        /\ Locals = prev

\* a marker line of the other family came with layout and zone already set
C7_Witness ==
    /\ Processed /\ family_of(prev) = "DISK" /\ line = L_procs_ts
    /\ prev.buff_cache # None /\ prev.tz # None

\* C8: a non-blank line that is neither marker nor header, while the family
\* is unset, is a fault: never a Success, an Error carrying the line with
\* ignore_exceptions=True (raised otherwise), and the family stays unset.
C8_DataBeforeMarker ==
    (Processed /\ family_of(prev) = "UNSET" /\ shape(line) = "data") =>
        /\ ~IsSuccess(yielded)
        /\ family_of(Locals) = "UNSET"
        /\ IF ignore_exceptions
           THEN pc = "loop" /\ IsError(yielded) /\ yielded["_jc_meta"].line = line
           ELSE pc = "raised" /\ yielded = NoYield

\* a complete procs data line met no marker
C8_Witness ==
    /\ Processed /\ family_of(prev) = "UNSET" /\ line = L_procs_data
    /\ ignore_exceptions /\ IsError(yielded)

\* C9 as stated: a header line that comes before any marker line is a fault.
C9_HeaderBeforeMarkerFaults ==
    (Processed /\ family_of(prev) = "UNSET" /\ shape(line) \in ColumnShapes) =>
        IsError(yielded) \/ pc = "raised"

\* C9 amended: a header line that comes before any marker line is consumed
\* silently: nothing is yielded or raised, the family stays unset, tz stays
\* None, and a layout header still sets buff_cache.
C9_HeaderBeforeMarkerConsumed ==
    (Processed /\ family_of(prev) = "UNSET" /\ shape(line) \in ColumnShapes) =>
        /\ pc = "loop"
        /\ yielded = NoYield
        /\ OutputsFor(n) = {}
        /\ family_of(Locals) = "UNSET"
        /\ tz = None
        /\ buff_cache = (IF shape(line) = "layout_a" THEN True
                         ELSE IF shape(line) = "layout_b" THEN False
                         ELSE prev.buff_cache)

\* a buff/cache header as the very first line
C9_Witness ==
    /\ Processed /\ n = 1 /\ family_of(prev) = "UNSET" /\ shape(line) = "layout_a"
    /\ buff_cache = True

\* C10 as stated: buff_cache is set only if the family is PROCESS.
C10_VariantOnlyForProcess ==
    buff_cache # None => family_of(Locals) = "PROCESS"

\* C10 amended: a layout header sets buff_cache whatever the family is, also
\* when it is unset or DISK; the layout only shows in the records of the
\* PROCESS family, a DISK record has none of the four memory fields.
C10_LayoutHeaderAnyFamily ==
    Processed =>
        /\ shape(line) = "layout_a" => buff_cache = True
        /\ shape(line) = "layout_b" => buff_cache = False
        /\ (IsSuccess(yielded) /\ family_of(prev) = "DISK") =>
              DOMAIN yielded \cap {"buffer_mem", "cache_mem", "inactive_mem", "active_mem"} = {}

\* an inact/active header in a DISK stream, and a DISK record after it
C10_Witness ==
    /\ Processed /\ family_of(prev) = "DISK" /\ prev.buff_cache = False
    /\ IsSuccess(yielded)

\* the tokens of a data line as the PROCESS family splits it
tokens17(l) == str_split(str_strip(l), 17)

\* C11: in the PROCESS family, once a layout header has been seen, every
\* Success record has exactly one of the pairs buffer_mem/cache_mem and
\* inactive_mem/active_mem non-null: the pair of the current layout, holding
\* the fifth and sixth token (as text with raw, as integers without).
C11_OnePairPerLayout ==
    (Processed /\ IsSuccess(yielded) /\ family_of(prev) = "PROCESS"
       /\ prev.buff_cache # None) =>
        LET t5 == IF raw THEN tokens17(line)[5] ELSE <<"int", IntOf(tokens17(line)[5])>>
            t6 == IF raw THEN tokens17(line)[6] ELSE <<"int", IntOf(tokens17(line)[6])>>
        IN  IF prev.buff_cache = True
            THEN /\ yielded["buffer_mem"] = t5 /\ yielded["cache_mem"] = t6
                 /\ yielded["inactive_mem"] = None /\ yielded["active_mem"] = None
            ELSE /\ yielded["inactive_mem"] = t5 /\ yielded["active_mem"] = t6
                 /\ yielded["buffer_mem"] = None /\ yielded["cache_mem"] = None

\* a normalized PROCESS record under the buff/cache layout
C11_Witness ==
    /\ Processed /\ IsSuccess(yielded) /\ ~raw
    /\ family_of(prev) = "PROCESS" /\ prev.buff_cache = True
    /\ yielded["buffer_mem"] = <<"int", 21>> /\ yielded["inactive_mem"] = None

\* C12: a data line with fewer tokens than the family needs (PROCESS 17, 18
\* with the timestamp column; DISK 11, 12 with it) is a fault: an Error with
\* ignore_exceptions=True, raised otherwise, never a Success.
C12_TooFewTokens ==
    (Processed /\ family_of(prev) # "UNSET" /\ shape(line) = "data"
       /\ ntokens(line) < required(prev)) =>
        /\ ~IsSuccess(yielded)
        /\ IF ignore_exceptions
           THEN pc = "loop" /\ IsError(yielded) /\ yielded["_jc_meta"].line = line
           ELSE pc = "raised" /\ yielded = NoYield

\* a complete PROCESS line without the timestamp the marker announced
C12_Witness ==
    /\ Processed /\ family_of(prev) = "PROCESS" /\ prev.tstamp = True
    /\ line = L_procs_data /\ IsError(yielded)

locals_of(f) ==
    [procs |-> f.procs, buff_cache |-> f.buff_cache, disk |-> f.disk, tstamp |-> f.tstamp,
     tz |-> f.tz]

\* both invocations have taken the same steps on the same elements
Synced == other # Absent /\ steps(Frame) = steps(other)

\* of the two invocations, the one with raw=True and the one with raw=False
RawRun == IF raw THEN Frame ELSE other
PlainRun == IF raw THEN other ELSE Frame

\* a raw record (without its tag) that normalization rejects
FailsNormalization(v) ==
    IsSuccess(v) /\ process_raises([k \in DOMAIN v \ {"_jc_meta"} |-> v[k]]) # ""

\* C13 as stated: on the same input, the run with raw=True and the run with
\* raw=False go through the same locals and yield a Success at the same
\* positions and an Error at the same positions.
C13_RawSameOutcome ==
    Synced =>
        /\ locals_of(RawRun) = locals_of(PlainRun)
        /\ RawRun.pc = PlainRun.pc
        /\ RawRun.output = PlainRun.output

\* C13 amended: raw does not affect classification and extraction: both runs
\* go through the same locals and skip the same lines, an Error with
\* raw=True is an Error with raw=False, a Success with raw=False is a Success
\* with raw=True; but a line that passes extraction and fails normalization
\* is a Success with raw=True and a fault with raw=False, and no other line
\* differs.
C13_RawSkipsNormalizationOnly ==
    Synced =>
        LET R == RawRun
            P == PlainRun
        IN  /\ locals_of(R) = locals_of(P)
            /\ R.nonblank = P.nonblank /\ R.consumed = P.consumed
            /\ R.pc = "raised" => P.pc = "raised"
            /\ Len(P.output) <= Len(R.output)
            /\ \A k \in 1..Len(P.output) :
                  /\ P.output[k].idx = R.output[k].idx
                  /\ P.output[k].success => R.output[k].success
            /\ (R.pc = P.pc /\ R.n > 0) =>
                  /\ Len(R.output) = Len(P.output)
                  /\ IsSuccess(R.yielded) /\ ~FailsNormalization(R.yielded)
                        => IsSuccess(P.yielded)
                  /\ IsError(R.yielded) => IsError(P.yielded)
                  /\ (R.yielded = NoYield) = (P.yielded = NoYield)
            /\ (R.n > 0 /\ (R.pc # P.pc \/ IsSuccess(R.yielded) # IsSuccess(P.yielded))) =>
                  FailsNormalization(R.yielded) /\ ~IsSuccess(P.yielded)
            /\ (IsError(P.yielded)
                  /\ P.yielded["_jc_meta"].error[1] \in {"ConversionFault", "TimestampFault"})
                  => IsSuccess(R.yielded)

\* a DISK line with a non-numeric field: a Success with raw, an Error without
C13_Witness ==
    /\ Synced /\ ignore_exceptions /\ RawRun.line = L_disk_bad
    /\ IsSuccess(RawRun.yielded) /\ IsError(PlainRun.yielded)
    /\ Len(RawRun.output) = 1 /\ RawRun.n = 3

\* a field of a yielded record that is there and not null
Present(v, key) == key \in DOMAIN v /\ v[key] # None

\* C14: in every normalized record, epoch is present iff the marker announced
\* the timestamp column (the line then carries a timestamp token), and
\* epoch_utc is present iff moreover the zone taken from the header is
\* exactly UTC.
C14_EpochFields ==
    (Processed /\ IsSuccess(yielded) /\ ~raw) =>
        /\ Present(yielded, "epoch") = (prev.tstamp = True)
        /\ Present(yielded, "timestamp") = (prev.tstamp = True)
        /\ Present(yielded, "epoch_utc") = (prev.tstamp = True /\ prev.tz = S_UTC)

\* a timestamped record under a zone other than UTC: epoch without epoch_utc
C14_Witness ==
    /\ Processed /\ IsSuccess(yielded) /\ ~raw
    /\ prev.tstamp = True /\ prev.tz = T_EST
    /\ Present(yielded, "epoch") /\ ~Present(yielded, "epoch_utc")

\* a timestamped record under UTC: both epochs
C14_WitnessUTC ==
    /\ Processed /\ IsSuccess(yielded) /\ ~raw
    /\ prev.tz = S_UTC /\ Present(yielded, "epoch") /\ Present(yielded, "epoch_utc")

\* C15: a header line makes tz its last token if tstamp is true and leaves
\* it None otherwise; so in every state, and in every record, a non-null
\* zone implies that tstamp is true.
C15_ZoneNeedsTimestamp ==
    /\ tz # None => tstamp = True
    /\ Processed =>
          /\ (shape(line) \in ColumnShapes /\ prev.tstamp = True) => tz = last_token(line)
          /\ (shape(line) \in ColumnShapes /\ prev.tstamp # True) => tz = None
          /\ (IsSuccess(yielded) /\ Present(yielded, "timezone")) =>
                prev.tstamp = True /\ yielded["timezone"] = prev.tz

\* a DISK record carrying the zone its header ended with
C15_Witness ==
    /\ Processed /\ IsSuccess(yielded) /\ family_of(prev) = "DISK"
    /\ yielded["timezone"] = S_UTC

\* the integer-valued fields of the schema
NumericFields ==
    {"runnable_procs", "uninterruptible_sleeping_procs", "virtual_mem_used", "free_mem",
     "buffer_mem", "cache_mem", "inactive_mem", "active_mem", "swap_in", "swap_out",
     "blocks_in", "blocks_out", "interrupts", "context_switches", "user_time",
     "system_time", "idle_time", "io_wait_time", "stolen_time", "total_reads",
     "merged_reads", "sectors_read", "reading_ms", "total_writes", "merged_writes",
     "sectors_written", "writing_ms", "current_io", "io_seconds"}

\* the numeric fields of record v whose text is not an integer
BadFields(v) ==
    {f \in DOMAIN v \cap NumericFields :
        v[f] # None /\ \E i \in 1..Len(v[f]) : ~isdigit(v[f][i])}

C18_InputTypeError ==
    /\ (data # "iterable" /\ pc # "call") =>
          /\ pc = "raised"
          /\ n = 0 /\ consumed = 0 /\ output = <<>> /\ yielded = NoYield
    /\ (data = "iterable" /\ Processed /\ line = NotStr) =>
          IF ignore_exceptions
          THEN /\ pc = "loop" /\ IsError(yielded)
               /\ yielded["_jc_meta"].error = <<"TypeError">>
               /\ output[Len(output)] = [idx |-> n, success |-> FALSE]
          ELSE pc = "raised" /\ yielded = NoYield

\* a bytes value refused although ignore_exceptions=True
C18_Witness ==
    /\ data = "bytes" /\ ignore_exceptions /\ pc = "raised"

\* a non-str element after a parsed line, turned into an Error
C18_WitnessElement ==
    /\ data = "iterable" /\ ignore_exceptions /\ Processed /\ n > 1
    /\ line = NotStr /\ IsError(yielded) /\ pc = "loop"

\* C19: an element that ends in an Error (or in the exception being raised)
\* leaves procs, buff_cache, disk, tstamp and tz as they were before it, and
\* adds exactly its own Error to the output; the elements after it are
\* therefore parsed from the same locals as if it had not been there.
C19_ErrorKeepsLocals ==
    Processed =>
        /\ (IsError(yielded) \/ pc = "raised") => Locals = prev
        /\ IsError(yielded) =>
              /\ pc = "loop"
              /\ output[Len(output)] = [idx |-> n, success |-> FALSE]
              /\ Cardinality(OutputsFor(n)) = 1

\* a short line between header and data of the PROCESS family, and the data
\* line after it still parsed with the layout of the header
C19_Witness ==
    /\ Processed /\ n = 4 /\ IsSuccess(yielded)
    /\ family_of(prev) = "PROCESS" /\ prev.buff_cache = True
    /\ Len(output) = 2 /\ output[1] = [idx |-> 3, success |-> FALSE]

\* C20: in the PROCESS family a data line met while buff_cache is still None
\* is parsed, not refused: tokens 5 and 6 go to inactive_mem and active_mem
\* (as text with raw, as integers otherwise) and buffer_mem and cache_mem
\* are null.
C20_UnsetVariantIsInactiveActive ==
    (Processed /\ family_of(prev) = "PROCESS" /\ prev.buff_cache = None
       /\ shape(line) = "data" /\ ntokens(line) >= required(prev)
       /\ (raw \/ process_raises(extract(line)) = "")) =>
        /\ IsSuccess(yielded)
        /\ pc = "loop"
        /\ yielded["buffer_mem"] = None /\ yielded["cache_mem"] = None
        /\ yielded["inactive_mem"] =
              (IF raw THEN tokens17(line)[5] ELSE <<"int", IntOf(tokens17(line)[5])>>)
        /\ yielded["active_mem"] =
              (IF raw THEN tokens17(line)[6] ELSE <<"int", IntOf(tokens17(line)[6])>>)

\* the procs marker directly followed by a data line
C20_Witness ==
    /\ Processed /\ n = 2 /\ family_of(prev) = "PROCESS" /\ prev.buff_cache = None
    /\ line = L_procs_data /\ ~raw
    /\ IsSuccess(yielded) /\ yielded["inactive_mem"] # None

\* C17: with two invocations pulled in any order, a step of the running one
\* leaves the suspended one exactly as it was (locals, position, outputs),
\* and turning to the other one finds it exactly as it was left and leaves
\* the first one as it is: nothing of one invocation is visible to the other.
C17_NoSharedState ==
    [][/\ cur' = cur => other' = other
       /\ cur' # cur => (Frame' = other /\ other' = Frame)]_vars

\* the first generator suspended after a timestamped header with zone UTC,
\* the second one, after its own marker, still without timestamp and zone
C17_Witness ==
    /\ cur = 2 /\ other # Absent
    /\ other.n = 2 /\ other.tstamp = True /\ other.tz = S_UTC
    /\ n = 1 /\ procs = True /\ tz = None

====
